---- MODULE Spec2Model ----
(***************************************************************************)
(* Model of code996's time-range resolution (cli/commands/analyze.ts,      *)
(* cli/common/time-range.ts, cli/commands/trend.ts, utils/date-parser.ts)  *)
(* and of the ranking command: the sample gate, the per-author analysis,   *)
(* the author-statistics merge and the sort (cli/commands/ranking.ts).     *)
(*                                                                         *)
(* JavaScript strings are sequences of one-character strings; a value that *)
(* may be undefined is a record with a type tag t.  Dates are day numbers  *)
(* since 1970-01-01 in the proleptic Gregorian calendar.                   *)
(***************************************************************************)
EXTENDS Integers, Sequences, FiniteSets, TLC

VARIABLES pc, fn, options, env, result, evaluated, stats, mergeMap, authorStats,
          repo, trace, tasks, output

vars == <<pc, fn, options, env, result, evaluated, stats, mergeMap, authorStats,
          repo, trace, tasks, output>>

----------------------------------------------------------------------------
(* JavaScript values *)

Undefined == [t |-> "undefined", s |-> <<>>, n |-> 0, d |-> 0]

Str(chars) == [t |-> "string", s |-> chars, n |-> 0, d |-> 0]

\* a number n/d; d = 1 for an integer, d = 0 for NaN
Num(n, d) == [t |-> "number", s |-> <<>>, n |-> n, d |-> d]

NaN == Num(0, 0)

\* ToBoolean: undefined, "", 0 and NaN are falsy
Truthy(v) ==
  CASE v.t = "undefined" -> FALSE
    [] v.t = "string" -> Len(v.s) > 0
    [] v.t = "number" -> v.d # 0 /\ v.n # 0

\* a || b
OrElse(a, b) == IF Truthy(a) THEN a ELSE b

DigitChars == <<"0", "1", "2", "3", "4", "5", "6", "7", "8", "9">>

IsDigit(c) == \E i \in 1..10 : DigitChars[i] = c

DigitVal(c) == (CHOOSE i \in 1..10 : DigitChars[i] = c) - 1

IsSpace(c) == c = " "

RECURSIVE DropSpaces(_)
DropSpaces(s) ==
  IF Len(s) > 0 /\ IsSpace(Head(s)) THEN DropSpaces(Tail(s)) ELSE s

RECURSIVE DropTrailingSpaces(_)
DropTrailingSpaces(s) ==
  IF Len(s) > 0 /\ IsSpace(s[Len(s)])
    THEN DropTrailingSpaces(SubSeq(s, 1, Len(s) - 1))
    ELSE s

\* String.prototype.trim
Trim(s) == DropTrailingSpaces(DropSpaces(s))

RECURSIVE DigitPrefix(_)
DigitPrefix(s) ==
  IF Len(s) > 0 /\ IsDigit(Head(s)) THEN <<Head(s)>> \o DigitPrefix(Tail(s)) ELSE <<>>

RECURSIVE DigitsValue(_)
DigitsValue(ds) ==
  IF Len(ds) = 0 THEN 0
  ELSE 10 * DigitsValue(SubSeq(ds, 1, Len(ds) - 1)) + DigitVal(ds[Len(ds)])

\* parseInt(s, 10): leading white space, a sign, the longest run of digits
ParseInt(s) ==
  LET t == DropSpaces(s)
      neg == Len(t) > 0 /\ Head(t) = "-"
      signed == Len(t) > 0 /\ Head(t) \in {"-", "+"}
      ds == DigitPrefix(IF signed THEN Tail(t) ELSE t)
  IN IF Len(ds) = 0 THEN NaN
     ELSE Num(IF neg THEN 0 - DigitsValue(ds) ELSE DigitsValue(ds), 1)

RECURSIVE NatToString(_)
NatToString(n) ==
  IF n < 10 THEN <<DigitChars[n + 1]>>
  ELSE NatToString(n \div 10) \o <<DigitChars[(n % 10) + 1]>>

\* String(n) of an integer
IntToString(n) == IF n < 0 THEN <<"-">> \o NatToString(0 - n) ELSE NatToString(n)

\* String(n).padStart(2, '0')
PadStart2(n) == LET s == IntToString(n) IN IF Len(s) < 2 THEN <<"0">> \o s ELSE s

----------------------------------------------------------------------------
(* ECMAScript date arithmetic, on day numbers *)

IsLeap(y) == (y % 4 = 0 /\ y % 100 # 0) \/ y % 400 = 0

DaysInMonth(y, m) ==
  CASE m \in {1, 3, 5, 7, 8, 10, 12} -> 31
    [] m \in {4, 6, 9, 11} -> 30
    [] OTHER -> IF IsLeap(y) THEN 29 ELSE 28

\* the day number of y-m-d (m in 1..12), days since 1970-01-01
DaysFromCivil(y, m, d) ==
  LET yy == IF m <= 2 THEN y - 1 ELSE y
      era == yy \div 400
      yoe == yy - era * 400
      mp == (m + 9) % 12
      doy == (153 * mp + 2) \div 5 + d - 1
      doe == yoe * 365 + yoe \div 4 - yoe \div 100 + doy
  IN era * 146097 + doe - 719468

\* YearFromTime, MonthFromTime + 1, DateFromTime of a day number
CivilFromDays(z) ==
  LET zz == z + 719468
      era == zz \div 146097
      doe == zz - era * 146097
      yoe == (doe - doe \div 1460 + doe \div 36524 - doe \div 146096) \div 365
      doy == doe - (365 * yoe + yoe \div 4 - yoe \div 100)
      mp == (5 * doy + 2) \div 153
      d == doy - (153 * mp + 2) \div 5 + 1
      m == IF mp < 10 THEN mp + 3 ELSE mp - 9
      y == yoe + era * 400 + (IF m <= 2 THEN 1 ELSE 0)
  IN [y |-> y, m |-> m, d |-> d]

\* MakeDay(year, month, date) with a 0-based month; date may be out of 1..31
MakeDay(year, month, date) ==
  DaysFromCivil(year + month \div 12, (month % 12) + 1, 1) + date - 1

\* `${year}-${month}-${day}` with month and day padded to two places
FormatYMD(c) ==
  IntToString(c.y) \o <<"-">> \o PadStart2(c.m) \o <<"-">> \o PadStart2(c.d)

\* String.prototype.split('-')
RECURSIVE SplitDash(_)
SplitDash(s) ==
  IF \A i \in 1..Len(s) : s[i] # "-" THEN <<s>>
  ELSE LET k == CHOOSE i \in 1..Len(s) : s[i] = "-" /\ \A j \in 1..(i - 1) : s[j] # "-"
       IN <<SubSeq(s, 1, k - 1)>> \o SplitDash(SubSeq(s, k + 1, Len(s)))

----------------------------------------------------------------------------
(* What a resolver hands back: a returned range, process.exit(1), or a throw *)

Returned(since, until, mode, note, calls) ==
  [kind |-> "return", since |-> since, until |-> until, mode |-> mode,
   note |-> note, calls |-> calls]

Exited(calls) ==
  [kind |-> "exit", since |-> Undefined, until |-> Undefined, mode |-> "",
   note |-> Undefined, calls |-> calls]

Thrown(calls) ==
  [kind |-> "throw", since |-> Undefined, until |-> Undefined, mode |-> "",
   note |-> Undefined, calls |-> calls]

NoResult == Returned(Undefined, Undefined, "", Undefined, {})

----------------------------------------------------------------------------
(* utils/date-parser.ts *)

\* calculateDaysRange without the + 1: the window starts N days back, not N - 1
calculateDaysRangeOffByOne(days, now) ==
  IF days.d # 1 \/ days.n <= 0 THEN Exited({"calculateDaysRange"})
  ELSE LET today == CivilFromDays(now)
           untilDate == MakeDay(today.y, today.m - 1, today.d)
           u == CivilFromDays(untilDate)
           sinceDate == MakeDay(u.y, u.m - 1, u.d - days.n)
       IN Returned(Str(FormatYMD(CivilFromDays(sinceDate))),
                   Str(FormatYMD(CivilFromDays(untilDate))), "",
                   Str(<<"recent ">> \o IntToString(days.n) \o <<" days">>),
                   {"calculateDaysRange"})

\* calculateDaysRange(days), read at local date `now`
calculateDaysRange(days, now) ==
  IF days.d # 1 \/ days.n <= 0 THEN Exited({"calculateDaysRange"})
  ELSE LET today == CivilFromDays(now)
           untilDate == MakeDay(today.y, today.m - 1, today.d)
           u == CivilFromDays(untilDate)
           sinceDate == MakeDay(u.y, u.m - 1, u.d - days.n + 1)
       IN Returned(Str(FormatYMD(CivilFromDays(sinceDate))),
                   Str(FormatYMD(CivilFromDays(untilDate))), "",
                   Str(<<"recent ">> \o IntToString(days.n) \o <<" days">>),
                   {"calculateDaysRange"})

AllDigits(s) == \A i \in 1..Len(s) : IsDigit(s[i])

\* /^(\d{4})-(\d{4})$/
RangeMatch(s) ==
  Len(s) = 9 /\ AllDigits(SubSeq(s, 1, 4)) /\ s[5] = "-" /\ AllDigits(SubSeq(s, 6, 9))

\* /^(\d{4})$/
SingleMatch(s) == Len(s) = 4 /\ AllDigits(s)

YearWindow(startYear, endYear, note) ==
  Returned(Str(IntToString(startYear) \o <<"-", "0", "1", "-", "0", "1">>),
           Str(IntToString(endYear) \o <<"-", "1", "2", "-", "3", "1">>),
           "", Str(note), {"parseYearOption"})

\* parseYearOption without the startYear > endYear test
parseYearOptionNoOrderCheck(yearStr) ==
  LET s == Trim(yearStr) IN
  IF RangeMatch(s) THEN
    LET startYear == ParseInt(SubSeq(s, 1, 4)).n
        endYear == ParseInt(SubSeq(s, 6, 9)).n
    IN IF startYear < 1970 \/ endYear < 1970
         THEN Exited({"parseYearOption"})
         ELSE YearWindow(startYear, endYear,
                IntToString(startYear) \o <<"-">> \o IntToString(endYear) \o <<" year">>)
  ELSE IF SingleMatch(s) THEN
    LET year == ParseInt(s).n
    IN IF year < 1970 THEN Exited({"parseYearOption"})
       ELSE YearWindow(year, year, IntToString(year) \o <<" year">>)
  ELSE Exited({"parseYearOption"})

\* parseYearOption of utils/date-parser.ts
parseYearOption(yearStr) ==
  LET s == Trim(yearStr) IN
  IF RangeMatch(s) THEN
    LET startYear == ParseInt(SubSeq(s, 1, 4)).n
        endYear == ParseInt(SubSeq(s, 6, 9)).n
    IN IF startYear < 1970 \/ endYear < 1970 \/ startYear > endYear
         THEN Exited({"parseYearOption"})
         ELSE YearWindow(startYear, endYear,
                IntToString(startYear) \o <<"-">> \o IntToString(endYear) \o <<" year">>)
  ELSE IF SingleMatch(s) THEN
    LET year == ParseInt(s).n
    IN IF year < 1970 THEN Exited({"parseYearOption"})
       ELSE YearWindow(year, year, IntToString(year) \o <<" year">>)
  ELSE Exited({"parseYearOption"})

\* parseYearOption of cli/common/time-range.ts, a copy of the one above
parseYearOptionCommon(yearStr) ==
  LET s == Trim(yearStr) IN
  IF RangeMatch(s) THEN
    LET startYear == ParseInt(SubSeq(s, 1, 4)).n
        endYear == ParseInt(SubSeq(s, 6, 9)).n
    IN IF startYear < 1970 \/ endYear < 1970 \/ startYear > endYear
         THEN Exited({"parseYearOption"})
         ELSE YearWindow(startYear, endYear,
                IntToString(startYear) \o <<"-">> \o IntToString(endYear) \o <<" year">>)
  ELSE IF SingleMatch(s) THEN
    LET year == ParseInt(s).n
    IN IF year < 1970 THEN Exited({"parseYearOption"})
       ELSE YearWindow(year, year, IntToString(year) \o <<" year">>)
  ELSE Exited({"parseYearOption"})

----------------------------------------------------------------------------
(* utils/terminal.ts, calculateTimeRange(false): the year back from now *)

FallbackDays == 365

calculateTimeRange(now) ==
  [since |-> Str(FormatYMD(CivilFromDays(now - FallbackDays))),
   until |-> Str(FormatYMD(CivilFromDays(now)))]

----------------------------------------------------------------------------
(* GitCollector.getFirstCommitDate / getLastCommitDate: throws, or a value *)

Lookup(throws, value) == [throws |-> throws, value |-> value]

----------------------------------------------------------------------------
(* cli/commands/analyze.ts *)

InvalidDate == [valid |-> FALSE, day |-> 0]

ValidDate(day) == [valid |-> TRUE, day |-> day]

\* parts[i] after .map(parseInt), undefined past the end of the array
PartAt(parts, i) == IF i <= Len(parts) THEN ParseInt(parts[i]) ELSE Undefined

\* Date.UTC(year, month, day): NaN gives an invalid date, years 0..99 mean 19xx
DateUTC(year, month, day) ==
  IF year.t # "number" \/ year.d # 1 \/ month.d # 1 \/ day.d # 1 THEN InvalidDate
  ELSE ValidDate(MakeDay(IF year.n \in 0..99 THEN 1900 + year.n ELSE year.n,
                         month.n, day.n))

\* toUTCDate of analyze.ts
toUTCDate(dateStr) ==
  LET parts == SplitDash(dateStr)
      year == PartAt(parts, 1)
      month == PartAt(parts, 2)
      day == PartAt(parts, 3)
      monthOr1 == OrElse(month, Num(1, 1))
  IN DateUTC(year, Num(monthOr1.n - 1, monthOr1.d), OrElse(day, Num(1, 1)))

\* formatUTCDate of analyze.ts
formatUTCDate(date) ==
  IF date.valid THEN FormatYMD(CivilFromDays(date.day))
  ELSE <<"N", "a", "N", "-", "N", "a", "N", "-", "N", "a", "N">>

LookbackDays == 365

LastCommitNote == Str(<<"365 days back from the last commit">>)

\* the try block of resolveTimeRange in analyze.ts, lastCommitDate truthy
AutoLastCommitAnalyze(lastCommitDate, calls) ==
  LET untilDate == toUTCDate(lastCommitDate)
      c == CivilFromDays(untilDate.day)
      moved == IF untilDate.valid
                 THEN ValidDate(MakeDay(c.y, c.m - 1, c.d - LookbackDays))
                 ELSE InvalidDate
      sinceDate == IF moved.valid /\ moved.day < 0 THEN ValidDate(0) ELSE moved
  IN Returned(Str(formatUTCDate(sinceDate)), Str(formatUTCDate(untilDate)),
              "auto-last-commit", LastCommitNote, calls)

\* the lower tiers with a partial since/until left unfilled
LowerTiersAnalyzeNoFill(o, e) ==
  IF Truthy(o.since) \/ Truthy(o.until) THEN
    Returned(o.since, o.until, "custom", Undefined, {})
  ELSE IF ~e.lastCommit.throws /\ Truthy(e.lastCommit.value) THEN
    AutoLastCommitAnalyze(e.lastCommit.value.s, {"getLastCommitDate"})
  ELSE
    LET fallback == calculateTimeRange(e.today)
    IN Returned(fallback.since, fallback.until, "fallback", Undefined,
                {"getLastCommitDate", "calculateTimeRange"})

\* the tiers of analyze.ts below the year tier
LowerTiersAnalyze(o, e) ==
  IF Truthy(o.since) \/ Truthy(o.until) THEN
    LET fallback == calculateTimeRange(e.today)
    IN Returned(OrElse(o.since, fallback.since), OrElse(o.until, fallback.until),
                "custom", Undefined, {"calculateTimeRange"})
  ELSE IF ~e.lastCommit.throws /\ Truthy(e.lastCommit.value) THEN
    AutoLastCommitAnalyze(e.lastCommit.value.s, {"getLastCommitDate"})
  ELSE
    LET fallback == calculateTimeRange(e.today)
    IN Returned(fallback.since, fallback.until, "fallback", Undefined,
                {"getLastCommitDate", "calculateTimeRange"})

\* the year tier of analyze.ts and what follows it
YearTierAnalyze(o, e) ==
  IF Truthy(o.year) THEN
    LET yearRange == parseYearOption(o.year.s)
    IN IF yearRange.kind = "return"
         THEN Returned(yearRange.since, yearRange.until, "custom", yearRange.note,
                       yearRange.calls)
         ELSE yearRange
  ELSE LowerTiersAnalyze(o, e)

\* resolveTimeRange without the allTime test
resolveTimeRangeAnalyzeNoAllTime(o, e) ==
  IF Truthy(o.days) THEN
    LET daysNum == IF o.days.t = "string" THEN ParseInt(o.days.s) ELSE o.days
        daysRange == calculateDaysRange(daysNum, e.today)
    IN IF daysRange.kind = "return"
         THEN Returned(daysRange.since, daysRange.until, "custom", daysRange.note,
                       daysRange.calls)
         ELSE daysRange
  ELSE YearTierAnalyze(o, e)

\* resolveTimeRange of analyze.ts
resolveTimeRangeAnalyze(o, e) ==
  IF o.allTime THEN Returned(Undefined, Undefined, "all-time", Undefined, {})
  ELSE IF Truthy(o.days) THEN
    LET daysNum == IF o.days.t = "string" THEN ParseInt(o.days.s) ELSE o.days
        daysRange == calculateDaysRange(daysNum, e.today)
    IN IF daysRange.kind = "return"
         THEN Returned(daysRange.since, daysRange.until, "custom", daysRange.note,
                       daysRange.calls)
         ELSE daysRange
  ELSE YearTierAnalyze(o, e)

----------------------------------------------------------------------------
(* cli/common/time-range.ts *)

\* toUTCDate of time-range.ts: dayjs.utc(dateStr) of a YYYY-MM-DD string
toUTCDateCommon(dateStr) ==
  IF Len(dateStr) = 10 /\ AllDigits(SubSeq(dateStr, 1, 4)) /\ dateStr[5] = "-"
     /\ AllDigits(SubSeq(dateStr, 6, 7)) /\ dateStr[8] = "-"
     /\ AllDigits(SubSeq(dateStr, 9, 10))
    THEN ValidDate(MakeDay(ParseInt(SubSeq(dateStr, 1, 4)).n,
                           ParseInt(SubSeq(dateStr, 6, 7)).n - 1,
                           ParseInt(SubSeq(dateStr, 9, 10)).n))
    ELSE InvalidDate

\* formatUTCDate of time-range.ts: date.format('YYYY-MM-DD')
formatUTCDateCommon(date) ==
  IF date.valid THEN FormatYMD(CivilFromDays(date.day))
  ELSE <<"Invalid Date">>

Epoch == <<"1", "9", "7", "0", "-", "0", "1", "-", "0", "1">>

\* sinceDate.isBefore(dayjs('1970-01-01')): UTC midnight of sinceDate against
\* local midnight of 1970-01-01, tz hours east of UTC
IsBeforeLocalEpoch(date, tz) == date.valid /\ date.day * 24 < 0 - tz

\* the try block without the clamp to 1970-01-01
AutoLastCommitCommonNoClamp(lastCommitDate, tz, calls) ==
  LET untilDate == toUTCDateCommon(lastCommitDate)
      sinceDate == IF untilDate.valid THEN ValidDate(untilDate.day - LookbackDays)
                   ELSE InvalidDate
  IN Returned(Str(formatUTCDateCommon(sinceDate)),
              Str(formatUTCDateCommon(untilDate)),
              "auto-last-commit", LastCommitNote, calls)

\* the try block of resolveTimeRange in time-range.ts, lastCommitDate truthy
AutoLastCommitCommon(lastCommitDate, tz, calls) ==
  LET untilDate == toUTCDateCommon(lastCommitDate)
      sinceDate == IF untilDate.valid THEN ValidDate(untilDate.day - LookbackDays)
                   ELSE InvalidDate
  IN IF IsBeforeLocalEpoch(sinceDate, tz)
       THEN Returned(Str(Epoch), Str(formatUTCDateCommon(untilDate)),
                     "auto-last-commit", LastCommitNote, calls)
       ELSE Returned(Str(formatUTCDateCommon(sinceDate)),
                     Str(formatUTCDateCommon(untilDate)),
                     "auto-last-commit", LastCommitNote, calls)

\* the lower tiers with the lookup's exception left uncaught
LowerTiersCommonNoCatch(o, e) ==
  IF Truthy(o.since) \/ Truthy(o.until) THEN
    LET fallback == calculateTimeRange(e.today)
    IN Returned(OrElse(o.since, fallback.since), OrElse(o.until, fallback.until),
                "custom", Undefined, {"calculateTimeRange"})
  ELSE IF e.lastCommit.throws THEN Thrown({"getLastCommitDate"})
  ELSE IF Truthy(e.lastCommit.value) THEN
    AutoLastCommitCommon(e.lastCommit.value.s, e.tz, {"getLastCommitDate"})
  ELSE
    LET fallback == calculateTimeRange(e.today)
    IN Returned(fallback.since, fallback.until, "fallback", Undefined,
                {"getLastCommitDate", "calculateTimeRange"})

\* the tiers of time-range.ts below the year tier
LowerTiersCommon(o, e) ==
  IF Truthy(o.since) \/ Truthy(o.until) THEN
    LET fallback == calculateTimeRange(e.today)
    IN Returned(OrElse(o.since, fallback.since), OrElse(o.until, fallback.until),
                "custom", Undefined, {"calculateTimeRange"})
  ELSE IF ~e.lastCommit.throws /\ Truthy(e.lastCommit.value) THEN
    AutoLastCommitCommon(e.lastCommit.value.s, e.tz, {"getLastCommitDate"})
  ELSE
    LET fallback == calculateTimeRange(e.today)
    IN Returned(fallback.since, fallback.until, "fallback", Undefined,
                {"getLastCommitDate", "calculateTimeRange"})

\* resolveTimeRange of time-range.ts: options.days is never read
resolveTimeRangeCommon(o, e) ==
  IF o.allTime THEN Returned(Undefined, Undefined, "all-time", Undefined, {})
  ELSE IF Truthy(o.year) THEN
    LET yearRange == parseYearOptionCommon(o.year.s)
    IN IF yearRange.kind = "return"
         THEN Returned(yearRange.since, yearRange.until, "custom", yearRange.note,
                       yearRange.calls)
         ELSE yearRange
  ELSE LowerTiersCommon(o, e)

----------------------------------------------------------------------------
(* cli/commands/trend.ts *)

\* dayjs().subtract(1, 'year'): the same month a year earlier, the day clamped
SubtractYear(c) ==
  [y |-> c.y - 1, m |-> c.m,
   d |-> IF c.d > DaysInMonth(c.y - 1, c.m) THEN DaysInMonth(c.y - 1, c.m) ELSE c.d]

\* TrendExecutor.resolveTimeRange: the common result, made to carry both bounds
resolveTimeRangeTrend(o, e) ==
  LET r == resolveTimeRangeCommon(o, e) IN
  IF r.kind # "return" THEN r
  ELSE IF r.mode = "all-time" THEN
    IF e.firstCommit.throws THEN Thrown(r.calls \cup {"getFirstCommitDate"})
    ELSE IF e.lastCommit.throws \/ ~Truthy(e.firstCommit.value)
            \/ ~Truthy(e.lastCommit.value)
      THEN Thrown(r.calls \cup {"getFirstCommitDate", "getLastCommitDate"})
    ELSE Returned(e.firstCommit.value, e.lastCommit.value, "", Undefined,
                  r.calls \cup {"getFirstCommitDate", "getLastCommitDate"})
  ELSE IF Truthy(r.since) /\ Truthy(r.until) THEN
    Returned(r.since, r.until, "", Undefined, r.calls)
  ELSE
    Returned(Str(FormatYMD(SubtractYear(CivilFromDays(e.today)))),
             Str(FormatYMD(CivilFromDays(e.today))), "", Undefined, r.calls)

----------------------------------------------------------------------------
(* cli/commands/ranking.ts: mergeAuthorStats *)

UpperChars ==
  <<"A", "B", "C", "D", "E", "F", "G", "H", "I", "J", "K", "L", "M",
    "N", "O", "P", "Q", "R", "S", "T", "U", "V", "W", "X", "Y", "Z">>

LowerChars ==
  <<"a", "b", "c", "d", "e", "f", "g", "h", "i", "j", "k", "l", "m",
    "n", "o", "p", "q", "r", "s", "t", "u", "v", "w", "x", "y", "z">>

LowerChar(c) ==
  IF \E i \in 1..26 : UpperChars[i] = c
    THEN LowerChars[CHOOSE i \in 1..26 : UpperChars[i] = c]
    ELSE c

\* String.prototype.toLowerCase
ToLowerCase(s) == [i \in 1..Len(s) |-> LowerChar(s[i])]

Abs(n) == IF n < 0 THEN 0 - n ELSE n

RECURSIVE GCD(_, _)
GCD(a, b) == IF b = 0 THEN a ELSE GCD(b, a % b)

\* the number n/d (d # 0) in lowest terms with a positive denominator
Rat(n, d) ==
  LET g == GCD(Abs(n), Abs(d))
      sign == IF d < 0 THEN 0 - 1 ELSE 1
  IN [n |-> sign * (n \div g), d |-> sign * (d \div g)]

RatAdd(a, b) == Rat(a.n * b.d + b.n * a.d, a.d * b.d)

RatScale(a, k) == Rat(a.n * k, a.d)

RatDiv(a, k) == Rat(a.n, a.d * k)

\* Number.prototype.toFixed(2): the sign and the nearest count of hundredths,
\* the larger one on a tie
ToFixed2(a) ==
  [neg |-> a.n < 0, cents |-> (2 * 100 * Abs(a.n) + a.d) \div (2 * a.d)]

\* Math.round(x + (y * n) / (m + n))
OverTimeAmendCount(x, y, m, n) ==
  (2 * (x * (m + n) + y * n) + (m + n)) \div (2 * (m + n))

\* IEEE 754 double precision, as far as Math.ceil((a / t) * 100) needs it: a
\* positive double is its 53 significant bits, the most significant first, and
\* the exponent exp of the first of them
SignificandBits == 53

\* 2^k modulo t
RECURSIVE PowerOfTwoMod(_, _)
PowerOfTwoMod(k, t) ==
  IF k = 0 THEN 1 % t
  ELSE LET half == PowerOfTwoMod(k \div 2, t)
       IN (half * half * (IF k % 2 = 1 THEN 2 ELSE 1)) % t

\* what is left of r / t after k binary digits, for 0 <= r < t < 2^15
RemainderAfter(r, t, k) == (r * PowerOfTwoMod(k, t)) % t

\* the first k binary digits of r / t
QuotientBits(r, t, k) ==
  [i \in 1..k |-> IF 2 * RemainderAfter(r, t, i - 1) >= t THEN 1 ELSE 0]

\* bits plus one; a carry out of the top gives one more bit
IncrementBits(bits) ==
  LET zeros == {i \in 1..Len(bits) : bits[i] = 0}
      last == CHOOSE i \in zeros : \A j \in zeros : j <= i
  IN IF zeros = {} THEN <<1>> \o [i \in 1..Len(bits) |-> 0]
     ELSE [i \in 1..Len(bits) |-> IF i < last THEN bits[i] ELSE IF i = last THEN 1 ELSE 0]

\* round to nearest, ties to even: bits holds at least one bit more than the
\* significand, sticky tells whether anything non-zero lies beyond bits
RoundToDouble(bits, exp, sticky) ==
  LET kept == SubSeq(bits, 1, SignificandBits)
      guard == bits[SignificandBits + 1]
      beyond == sticky \/ \E i \in (SignificandBits + 2)..Len(bits) : bits[i] = 1
      up == guard = 1 /\ (beyond \/ kept[SignificandBits] = 1)
      raised == IncrementBits(kept)
  IN IF ~up THEN [bits |-> kept, exp |-> exp]
     ELSE IF Len(raised) > SignificandBits
       THEN [bits |-> SubSeq(raised, 1, SignificandBits), exp |-> exp + 1]
     ELSE [bits |-> raised, exp |-> exp]

\* the least e with a * 2^e >= t
RECURSIVE ShiftToReach(_, _)
ShiftToReach(a, t) == IF a >= t THEN 0 ELSE 1 + ShiftToReach(2 * a, t)

\* the double a / t, for integers 0 < a <= t
DoubleDivide(a, t) ==
  LET e == ShiftToReach(a, t)
      r == a * 2^e - t
  IN RoundToDouble(<<1>> \o QuotientBits(r, t, SignificandBits), 0 - e,
                   RemainderAfter(r, t, SignificandBits) # 0)

\* the natural number v in `width` bits
BitsOf(v, width) == [i \in 1..width |-> (v \div 2^(width - i)) % 2]

\* the natural number that bits[from..to] spell
RECURSIVE ValueOf(_, _, _)
ValueOf(bits, from, to) ==
  IF to < from THEN 0 ELSE 2 * ValueOf(bits, from, to - 1) + bits[to]

\* the 53 bits times c < 128, in 60 bits: three limbs, carries upwards
TimesBits(bits, c) ==
  LET low == ValueOf(bits, 36, 53) * c
      middle == ValueOf(bits, 18, 35) * c + low \div 2^18
      high == ValueOf(bits, 1, 17) * c + middle \div 2^18
  IN BitsOf(high, 24) \o BitsOf(middle % 2^18, 18) \o BitsOf(low % 2^18, 18)

LeadingZeros(bits) ==
  (CHOOSE i \in 1..Len(bits) : bits[i] = 1 /\ \A j \in 1..(i - 1) : bits[j] = 0) - 1

\* the double v * c, for an integer 0 < c < 128
DoubleTimes(v, c) ==
  LET product == TimesBits(v.bits, c)
      lead == LeadingZeros(product)
  IN RoundToDouble(SubSeq(product, lead + 1, Len(product)), v.exp + 7 - lead, FALSE)

\* Math.ceil of a positive double below 2^31
MathCeil(v) ==
  IF v.exp < 0 THEN 1
  ELSE ValueOf(v.bits, 1, v.exp + 1)
         + (IF \E i \in (v.exp + 2)..SignificandBits : v.bits[i] = 1 THEN 1 ELSE 0)

\* Math.ceil((amend / total) * 100)
CeilPercent(amend, total) ==
  IF amend = 0 THEN 0 ELSE MathCeil(DoubleTimes(DoubleDivide(amend, total), 100))

\* the share of the commits that are not overtime
OverTimePercentOfWorkingHours(x, y, m, n) ==
  CeilPercent(y + x - OverTimeAmendCount(x, y, m, n), y + x)

\* Math.ceil((overTimeAmendCount / (y + x)) * 100)
OverTimePercent(x, y, m, n) == CeilPercent(OverTimeAmendCount(x, y, m, n), y + x)

\* mergeMap.get(key): the primary identity, or none
HasPrimary(map, key) == key \in DOMAIN map

\* targetEmail and targetName of a stat
TargetEmail(stat, map) ==
  IF HasPrimary(map, ToLowerCase(stat.email))
    THEN map[ToLowerCase(stat.email)].email ELSE stat.email

TargetName(stat, map) ==
  IF HasPrimary(map, ToLowerCase(stat.email))
    THEN map[ToLowerCase(stat.email)].name ELSE stat.name

\* the fold with the weekend count left at the first record's
MergeIntoKeepsWeekend(existing, stat) ==
  LET totalCommits == existing.totalCommits + stat.totalCommits
      y == existing.workingHourCommits + stat.workingHourCommits
      x == existing.overtimeCommits + stat.overtimeCommits
      m == existing.weekdayCommits + stat.weekdayCommits
      n == existing.weekendCommits
      index996 == RatDiv(RatAdd(RatScale(existing.index996,
                                         totalCommits - stat.totalCommits),
                                RatScale(stat.index996, stat.totalCommits)),
                         totalCommits)
  IN [existing EXCEPT
        !.totalCommits = totalCommits,
        !.workingHourCommits = y,
        !.overtimeCommits = x,
        !.weekdayCommits = m,
        !.weekendCommits = n,
        !.index996 = index996,
        !.index996Str = ToFixed2(index996),
        !.overTimeRadio = IF m + n > 0 /\ y + x > 0
                            THEN OverTimePercent(x, y, m, n)
                            ELSE existing.overTimeRadio]

\* the fold with the overtime count left at the first record's
MergeIntoDropsOvertime(existing, stat) ==
  LET totalCommits == existing.totalCommits + stat.totalCommits
      y == existing.workingHourCommits + stat.workingHourCommits
      x == existing.overtimeCommits
      m == existing.weekdayCommits + stat.weekdayCommits
      n == existing.weekendCommits + stat.weekendCommits
      index996 == RatDiv(RatAdd(RatScale(existing.index996,
                                         totalCommits - stat.totalCommits),
                                RatScale(stat.index996, stat.totalCommits)),
                         totalCommits)
  IN [existing EXCEPT
        !.totalCommits = totalCommits,
        !.workingHourCommits = y,
        !.overtimeCommits = x,
        !.weekdayCommits = m,
        !.weekendCommits = n,
        !.index996 = index996,
        !.index996Str = ToFixed2(index996),
        !.overTimeRadio = IF m + n > 0 /\ y + x > 0
                            THEN OverTimePercent(x, y, m, n)
                            ELSE existing.overTimeRadio]

\* the fold with the old index weighed by the total after the update
MergeIntoWeighsByNewTotal(existing, stat) ==
  LET totalCommits == existing.totalCommits + stat.totalCommits
      y == existing.workingHourCommits + stat.workingHourCommits
      x == existing.overtimeCommits + stat.overtimeCommits
      m == existing.weekdayCommits + stat.weekdayCommits
      n == existing.weekendCommits + stat.weekendCommits
      index996 == RatDiv(RatAdd(RatScale(existing.index996, totalCommits),
                                RatScale(stat.index996, stat.totalCommits)),
                         totalCommits)
  IN [existing EXCEPT
        !.totalCommits = totalCommits,
        !.workingHourCommits = y,
        !.overtimeCommits = x,
        !.weekdayCommits = m,
        !.weekendCommits = n,
        !.index996 = index996,
        !.index996Str = ToFixed2(index996),
        !.overTimeRadio = IF m + n > 0 /\ y + x > 0
                            THEN OverTimePercent(x, y, m, n)
                            ELSE existing.overTimeRadio]

\* the `if (existing)` branch: fold stat into the accumulated record
MergeInto(existing, stat) ==
  LET totalCommits == existing.totalCommits + stat.totalCommits
      y == existing.workingHourCommits + stat.workingHourCommits
      x == existing.overtimeCommits + stat.overtimeCommits
      m == existing.weekdayCommits + stat.weekdayCommits
      n == existing.weekendCommits + stat.weekendCommits
      index996 == RatDiv(RatAdd(RatScale(existing.index996,
                                         totalCommits - stat.totalCommits),
                                RatScale(stat.index996, stat.totalCommits)),
                         totalCommits)
  IN [existing EXCEPT
        !.totalCommits = totalCommits,
        !.workingHourCommits = y,
        !.overtimeCommits = x,
        !.weekdayCommits = m,
        !.weekendCommits = n,
        !.index996 = index996,
        !.index996Str = ToFixed2(index996),
        !.overTimeRadio = IF m + n > 0 /\ y + x > 0
                            THEN OverTimePercent(x, y, m, n)
                            ELSE existing.overTimeRadio]

\* merged.get(key): the position of the entry under key, 0 when there is none
EntryAt(merged, key) ==
  IF \E i \in 1..Len(merged) : merged[i].key = key
    THEN CHOOSE i \in 1..Len(merged) : merged[i].key = key
    ELSE 0

\* one turn of the for loop over stats; merged is the Map in insertion order
MergeStat(merged, stat, map) ==
  LET key == ToLowerCase(TargetEmail(stat, map))
      at == EntryAt(merged, key)
  IN IF at # 0
       THEN [merged EXCEPT ![at].value = MergeInto(merged[at].value, stat)]
       ELSE Append(merged,
                   [key |-> key,
                    value |-> [stat EXCEPT !.name = TargetName(stat, map),
                                           !.email = TargetEmail(stat, map)]])

RECURSIVE MergeLoop(_, _, _)
MergeLoop(merged, rest, map) ==
  IF Len(rest) = 0 THEN merged
  ELSE MergeLoop(MergeStat(merged, Head(rest), map), Tail(rest), map)

\* mergeAuthorStats(stats, mergeMap): Array.from(merged.values())
mergeAuthorStats(list, map) ==
  LET merged == MergeLoop(<<>>, list, map)
  IN [i \in 1..Len(merged) |-> merged[i].value]

----------------------------------------------------------------------------
(* cli/commands/ranking.ts: the ranking order *)

\* a < b for two numbers in lowest terms, by whole parts and then remainders
RECURSIVE RatLess(_, _)
RatLess(a, b) ==
  IF a.n \div a.d # b.n \div b.d THEN a.n \div a.d < b.n \div b.d
  ELSE IF b.n % b.d = 0 THEN FALSE
  ELSE IF a.n % a.d = 0 THEN TRUE
  ELSE RatLess([n |-> b.d, d |-> b.n % b.d], [n |-> a.d, d |-> a.n % a.d])

\* Math.log10 is kept to four decimals
LogScale == 10000

\* Math.log10(n) for n = 1..99, in units of 1 / LogScale, rounded down
Log10Table ==
  <<
    0, 3010, 4771, 6020, 6989, 7781, 8450, 9030, 9542, 10000, 10413,
    10791, 11139, 11461, 11760, 12041, 12304, 12552, 12787, 13010, 13222, 13424,
    13617, 13802, 13979, 14149, 14313, 14471, 14623, 14771, 14913, 15051, 15185,
    15314, 15440, 15563, 15682, 15797, 15910, 16020, 16127, 16232, 16334, 16434,
    16532, 16627, 16720, 16812, 16901, 16989, 17075, 17160, 17242, 17323, 17403,
    17481, 17558, 17634, 17708, 17781, 17853, 17923, 17993, 18061, 18129, 18195,
    18260, 18325, 18388, 18450, 18512, 18573, 18633, 18692, 18750, 18808, 18864,
    18920, 18976, 19030, 19084, 19138, 19190, 19242, 19294, 19344, 19395, 19444,
    19493, 19542, 19590, 19637, 19684, 19731, 19777, 19822, 19867, 19912, 19956
  >>

\* Math.min(1, Math.log10(Math.max(1, stats.totalCommits)) / 2)
commitCountFactor(totalCommits) ==
  IF totalCommits >= 100 THEN Rat(1, 1)
  ELSE Rat(Log10Table[IF totalCommits < 1 THEN 1 ELSE totalCommits], 2 * LogScale)

\* Math.min(stats.overtimeCommits, 50) / 5
overtimeWeight(overtimeCommits) ==
  Rat(IF overtimeCommits < 50 THEN overtimeCommits ELSE 50, 5)

\* the score with the test for a negative index left out
calculateRankingScoreNoNegativeBranch(a) ==
  RatAdd(Rat(a.index996.n * commitCountFactor(a.totalCommits).n,
             a.index996.d * commitCountFactor(a.totalCommits).d),
         overtimeWeight(a.overtimeCommits))

\* calculateRankingScore(stats)
calculateRankingScore(a) ==
  IF a.index996.n < 0 THEN a.index996
  ELSE RatAdd(Rat(a.index996.n * commitCountFactor(a.totalCommits).n,
                  a.index996.d * commitCountFactor(a.totalCommits).d),
              overtimeWeight(a.overtimeCommits))

\* `const sortBy = options.sortBy || 'score'`, and the switch's default
SortMode(o) ==
  IF Truthy(o.sortBy) /\ o.sortBy.s \in {<<"index">>, <<"overtime">>, <<"commits">>}
    THEN o.sortBy.s ELSE <<"score">>

\* the key the comparator of a mode subtracts
SortKey(a, mode) ==
  IF mode = <<"index">> THEN a.index996
  ELSE IF mode = <<"overtime">> THEN Rat(a.overtimeCommits, 1)
  ELSE IF mode = <<"commits">> THEN Rat(a.totalCommits, 1)
  ELSE calculateRankingScore(a)

\* the comparator with the operands of the subtraction exchanged
ComparesAfterAscending(a, b, mode) == RatLess(SortKey(b, mode), SortKey(a, mode))

\* the comparator's result for (a, b) is positive: b's key is the larger
ComparesAfter(a, b, mode) == RatLess(SortKey(a, mode), SortKey(b, mode))

\* one element placed into a sorted list: before the first element that
\* compares after it, so behind every element it ties with
InsertSorted(sorted, a, mode) ==
  LET later == {i \in 1..Len(sorted) : ComparesAfter(sorted[i], a, mode)}
      at == IF later = {} THEN Len(sorted) + 1
            ELSE CHOOSE i \in later : \A j \in later : i <= j
  IN SubSeq(sorted, 1, at - 1) \o <<a>> \o SubSeq(sorted, at, Len(sorted))

\* authorStats.sort(comparator): Array.prototype.sort is stable
RECURSIVE SortFrom(_, _, _)
SortFrom(sorted, rest, mode) ==
  IF Len(rest) = 0 THEN sorted
  ELSE SortFrom(InsertSorted(sorted, Head(rest), mode), Tail(rest), mode)

SortAuthorStats(list, o) == SortFrom(<<>>, list, SortMode(o))

----------------------------------------------------------------------------
(* The commands' first step: resolve the time range *)

MergeIdle == stats = <<>> /\ mergeMap = <<>> /\ authorStats = <<>>

\* what the data source holds: the authors of the window, each with what its
\* analysis yields, and the call of the data source that fails, if any
Repository(authors, failAt) == [authors |-> authors, failAt |-> failAt]

NoOutput == [kind |-> "none", authors |-> <<>>]

\* nothing collected, nothing rendered
RunIdle(r) == repo = r /\ trace = <<>> /\ tasks = <<>> /\ output = NoOutput

\* one run of a command up to the resolved range; a fatal input error or a
\* throw out of the resolver ends the process with exit code 1
Resolve(name, r) ==
  /\ pc = "start"
  /\ fn' = name
  /\ result' = r
  /\ evaluated' = r.calls
  /\ pc' = IF r.kind = "return" THEN "resolved" ELSE "exit"
  /\ UNCHANGED <<options, env, stats, mergeMap, authorStats, repo, trace, tasks, output>>

\* AnalyzeExecutor.execute
AnalyzeResolveTimeRange == Resolve("analyze", resolveTimeRangeAnalyze(options, env))

\* RankingExecutor.execute
RankingResolveTimeRange == Resolve("ranking", resolveTimeRangeCommon(options, env))

\* TrendExecutor.execute
TrendResolveTimeRange == Resolve("trend", resolveTimeRangeTrend(options, env))

InitResolve(optionSet, envSet) ==
  /\ pc = "start"
  /\ fn = ""
  /\ options \in optionSet
  /\ env \in envSet
  /\ result = NoResult
  /\ evaluated = {}
  /\ MergeIdle
  /\ RunIdle(Repository(<<>>, "none"))

DaysInputs ==
  {Undefined, Num(7, 1), Num(0, 1), Num(0 - 3, 1), Num(15, 2),
   Str(<<"7">>), Str(<<"7", ".", "5">>), Str(<<"a", "b", "c">>), Str(<<"0">>),
   Str(<<"-", "3">>)}

YearInputs ==
  {Undefined,
   Str(<<"2", "0", "2", "3">>),
   Str(<<"2", "0", "2", "3", "-", "2", "0", "2", "5">>),
   Str(<<"1", "9", "6", "9">>),
   Str(<<"2", "0", "2", "5", "-", "2", "0", "2", "3">>),
   Str(<<"2", "0", "x", "3">>)}

SinceInputs == {Undefined, Str(<<"2", "0", "2", "4", "-", "0", "1", "-", "0", "1">>)}

UntilInputs == {Undefined, Str(<<"2", "0", "2", "4", "-", "0", "6", "-", "3", "0">>)}

OptionInputs ==
  [allTime : BOOLEAN, days : DaysInputs, year : YearInputs,
   since : SinceInputs, until : UntilInputs, merge : {FALSE}, sortBy : {Undefined}]

LastCommitInputs ==
  {Lookup(TRUE, Undefined), Lookup(FALSE, Undefined),
   Lookup(FALSE, Str(<<"2", "0", "2", "4", "-", "1", "1", "-", "3", "0">>)),
   Lookup(FALSE, Str(<<"1", "9", "7", "0", "-", "0", "6", "-", "0", "1">>))}

FirstCommitInputs ==
  {Lookup(TRUE, Undefined), Lookup(FALSE, Undefined),
   Lookup(FALSE, Str(<<"2", "0", "1", "9", "-", "0", "5", "-", "0", "5">>))}

EnvInputs ==
  [today : {DaysFromCivil(2025, 1, 15), DaysFromCivil(2024, 3, 1)},
   lastCommit : LastCommitInputs, firstCommit : FirstCommitInputs,
   tz : {0 - 8, 8}]

Init == InitResolve(OptionInputs, EnvInputs)

Next ==
  \/ AnalyzeResolveTimeRange
  \/ RankingResolveTimeRange
  \/ TrendResolveTimeRange

Spec == Init /\ [][Next]_vars

----------------------------------------------------------------------------
(* Calendar reading of "k days earlier", one month at a time *)

\* the last day of the month before c's
EndOfPrevMonth(c) ==
  IF c.m > 1 THEN [y |-> c.y, m |-> c.m - 1, d |-> DaysInMonth(c.y, c.m - 1)]
  ELSE [y |-> c.y - 1, m |-> 12, d |-> 31]

RECURSIVE MinusDays(_, _)
MinusDays(c, k) ==
  IF k < c.d THEN [c EXCEPT !.d = c.d - k]
  ELSE MinusDays(EndOfPrevMonth(c), k - c.d)

\* the options as the command line defines them
IsPositiveIntegerText(s) ==
  Len(s) > 0 /\ AllDigits(s) /\ DigitsValue(s) > 0

DaysValid(v) ==
  \/ v.t = "number" /\ v.d = 1 /\ v.n > 0
  \/ v.t = "string" /\ IsPositiveIntegerText(v.s)

DaysCount(v) == IF v.t = "number" THEN v.n ELSE DigitsValue(v.s)

\* a days value was given, and it is non-positive or not an integer
DaysInvalid(v) == v.t # "undefined" /\ ~DaysValid(v)

Resolved == pc = "resolved"

Finished == pc \in {"resolved", "exit"}

\* the N most recent whole days ending today
IsDaysWindow(r, n, today) ==
  /\ r.kind = "return"
  /\ r.until = Str(FormatYMD(CivilFromDays(today)))
  /\ r.since = Str(FormatYMD(MinusDays(CivilFromDays(today), n - 1)))

\* C1: with days and year both given and allTime not set, every resolver the
\* analyze, ranking and trend commands call returns the N-most-recent-days
\* window, not the year window.
C1_DaysWinsOverYear ==
  (Finished /\ ~options.allTime /\ DaysValid(options.days) /\ Truthy(options.year))
    => IsDaysWindow(result, DaysCount(options.days), env.today)

\* C2: with allTime set the resolver returns mode all-time with neither since
\* nor until, whatever else is given, and evaluates no other tier.
C2_AllTimeWins ==
  (Finished /\ fn \in {"analyze", "ranking"} /\ options.allTime)
    => /\ result.kind = "return"
       /\ result.mode = "all-time"
       /\ result.since = Undefined
       /\ result.until = Undefined
       /\ evaluated = {}

C2_Witness ==
  /\ Resolved
  /\ fn = "analyze"
  /\ options.allTime
  /\ DaysInvalid(options.days)
  /\ options.year = Str(<<"1", "9", "6", "9">>)
  /\ Truthy(options.since)
  /\ result.mode = "all-time"

\* C3: a days value that is non-positive or not an integer ends the resolution
\* with the fatal error: no window is returned and no later tier is evaluated.
C3_InvalidDaysIsFatal ==
  (Finished /\ ~options.allTime /\ DaysInvalid(options.days))
    => /\ pc = "exit"
       /\ result.kind = "exit"
       /\ evaluated = {"calculateDaysRange"}

NoRangeOption ==
  /\ ~options.allTime
  /\ options.days = Undefined
  /\ options.year = Undefined
  /\ options.since = Undefined
  /\ options.until = Undefined

LookupFailed(l) == l.throws \/ ~Truthy(l.value)

\* C6: with no range option given and the last-commit lookup throwing or
\* returning no date, the resolver returns mode fallback with since and until
\* of the default window; no error surfaces.
C6_LookupFailureFallsBack ==
  (Finished /\ fn \in {"analyze", "ranking"} /\ NoRangeOption
   /\ LookupFailed(env.lastCommit))
    => /\ pc = "resolved"
       /\ result.kind = "return"
       /\ result.mode = "fallback"
       /\ result.since = calculateTimeRange(env.today).since
       /\ result.until = calculateTimeRange(env.today).until
       /\ result.until = Str(FormatYMD(CivilFromDays(env.today)))

C6_Witness ==
  /\ Resolved
  /\ fn = "ranking"
  /\ NoRangeOption
  /\ env.lastCommit.throws
  /\ result.mode = "fallback"

\* C7: every range a resolver returns lacks since or until only in mode
\* all-time; in modes custom, auto-last-commit and fallback both are present.
\* The range TrendExecutor.resolveTimeRange returns always has both.
C7_BoundsAbsentOnlyInAllTime ==
  (Resolved /\ result.kind = "return")
    => /\ fn \in {"analyze", "ranking"}
            => /\ result.mode \in {"all-time", "custom", "auto-last-commit", "fallback"}
               /\ (result.since = Undefined \/ result.until = Undefined)
                     => result.mode = "all-time"
               /\ result.mode # "all-time"
                     => result.since.t = "string" /\ result.until.t = "string"
                        /\ Truthy(result.since) /\ Truthy(result.until)
       /\ fn = "trend" => Truthy(result.since) /\ Truthy(result.until)

C7_Witness ==
  /\ Resolved
  /\ fn = "analyze"
  /\ result.mode = "custom"
  /\ options.since = Undefined
  /\ Truthy(options.until)
  /\ Truthy(result.since)

----------------------------------------------------------------------------
(* calculateDaysRange over many dates and day counts *)

MaxDays == 400

MaxTodaySpan == 3

TodayBases ==
  {DaysFromCivil(2025, 1, 15), DaysFromCivil(2024, 2, 27), DaysFromCivil(2023, 12, 30),
   DaysFromCivil(2100, 2, 26), DaysFromCivil(2000, 2, 27), DaysFromCivil(1970, 1, 1)}

TodayInputs == {b + k : b \in TodayBases, k \in 0..MaxTodaySpan}

InitDays ==
  InitResolve(
    [allTime : {FALSE}, days : {Num(n, 1) : n \in 1..MaxDays}, year : {Undefined},
     since : {Undefined}, until : {Undefined}, merge : {FALSE}, sortBy : {Undefined}],
    [today : TodayInputs, lastCommit : {Lookup(FALSE, Undefined)},
     firstCommit : {Lookup(FALSE, Undefined)}, tz : {0}])

NextDays == AnalyzeResolveTimeRange

SpecDays == InitDays /\ [][NextDays]_vars

\* the day number a YYYY-MM-DD text names, by counting back to 1970-01-01
TextDay(s) ==
  DaysFromCivil(DigitsValue(SubSeq(s, 1, Len(s) - 6)),
                DigitsValue(SubSeq(s, Len(s) - 4, Len(s) - 3)),
                DigitsValue(SubSeq(s, Len(s) - 1, Len(s))))

\* C4: for a positive integer N, calculateDaysRange(N) returns until = today and
\* since = today - (N - 1) days: exactly N days, since <= until; N = 7 on
\* 2025-01-15 gives 2025-01-09 .. 2025-01-15.
C4_DaysRangeIsLastNDays ==
  (Finished /\ evaluated = {"calculateDaysRange"} /\ DaysValid(options.days))
    => /\ IsDaysWindow(result, DaysCount(options.days), env.today)
       /\ TextDay(result.until.s) - TextDay(result.since.s) + 1 = DaysCount(options.days)
       /\ TextDay(result.since.s) <= TextDay(result.until.s)
       /\ (env.today = DaysFromCivil(2025, 1, 15) /\ DaysCount(options.days) = 7) =>
             /\ result.since = Str(<<"2", "0", "2", "5", "-", "0", "1", "-", "0", "9">>)
             /\ result.until = Str(<<"2", "0", "2", "5", "-", "0", "1", "-", "1", "5">>)

C4_Witness ==
  /\ Resolved
  /\ env.today = DaysFromCivil(2024, 3, 1)
  /\ options.days = Num(367, 1)
  /\ result.since = Str(<<"2", "0", "2", "3", "-", "0", "3", "-", "0", "1">>)
  /\ result.until = Str(<<"2", "0", "2", "4", "-", "0", "3", "-", "0", "1">>)

----------------------------------------------------------------------------
(* parseYearOption over many strings *)

MaxYearLen == 4

YearChars == {"0", "1", "6", "7", "9", "-", " ", "x"}

ShortYearTexts == UNION {[1..n -> YearChars] : n \in 0..MaxYearLen}

YearTokens ==
  {<<"1", "9", "6", "9">>, <<"1", "9", "7", "0">>, <<"2", "0", "2", "3">>,
   <<"2", "0", "2", "5">>, <<"0", "0", "0", "0">>, <<"9", "9", "9", "9">>,
   <<"2", "0", "x", "3">>, <<"2", "0", "2">>}

YearSeparators == {<<"-">>, <<"-", "-">>, <<" ", "-", " ">>, <<"/">>}

YearPads == {<<>>, <<" ">>}

RangeYearTexts ==
  {p \o a \o sep \o b \o p :
     p \in YearPads, a \in YearTokens, sep \in YearSeparators, b \in YearTokens}

InitYear ==
  InitResolve(
    [allTime : {FALSE}, days : {Undefined},
     year : {Str(s) : s \in (ShortYearTexts \cup RangeYearTexts) \ {<<>>}},
     since : {Undefined}, until : {Undefined}, merge : {FALSE}, sortBy : {Undefined}],
    [today : {DaysFromCivil(2025, 1, 15)}, lastCommit : {Lookup(FALSE, Undefined)},
     firstCommit : {Lookup(FALSE, Undefined)}, tz : {0}])

NextYear ==
  \/ AnalyzeResolveTimeRange
  \/ RankingResolveTimeRange
  \/ TrendResolveTimeRange

SpecYear == InitYear /\ [][NextYear]_vars

\* a text that, surrounding white space aside, is four digits
IsYearText(s) == Len(s) = 4 /\ \A i \in 1..4 : IsDigit(s[i])

LastOf(s, k) == SubSeq(s, Len(s) - k + 1, Len(s))

\* a text that, surrounding white space aside, is YYYY-YYYY
IsYearRangeText(s) ==
  Len(s) = 9 /\ IsYearText(SubSeq(s, 1, 4)) /\ s[5] = "-" /\ IsYearText(LastOf(s, 4))

JanFirst == <<"-", "0", "1", "-", "0", "1">>

DecLast == <<"-", "1", "2", "-", "3", "1">>

\* C5: parseYearOption maps a year Y >= 1970 to Y-01-01 .. Y-12-31 and a range
\* Y1-Y2 with 1970 <= Y1 <= Y2 to Y1-01-01 .. Y2-12-31 (white space around the
\* text ignored); every other text is a fatal input error: no window, and no
\* later tier evaluated.
C5_YearOptionWindowOrFatal ==
  (Finished /\ "parseYearOption" \in evaluated) =>
    LET s == Trim(options.year.s)
        single == IsYearText(s) /\ DigitsValue(s) >= 1970
        range == /\ IsYearRangeText(s)
                 /\ 1970 <= DigitsValue(SubSeq(s, 1, 4))
                 /\ DigitsValue(SubSeq(s, 1, 4)) <= DigitsValue(LastOf(s, 4))
    IN /\ single => /\ result.kind = "return"
                    /\ result.since = Str(s \o JanFirst)
                    /\ result.until = Str(s \o DecLast)
       /\ range => /\ result.kind = "return"
                   /\ result.since = Str(SubSeq(s, 1, 4) \o JanFirst)
                   /\ result.until = Str(LastOf(s, 4) \o DecLast)
       /\ ~(single \/ range) => /\ pc = "exit"
                                /\ result.kind = "exit"
                                /\ result.since = Undefined
                                /\ result.until = Undefined
                                /\ evaluated = {"parseYearOption"}

C5_Witness ==
  /\ pc = "exit"
  /\ fn = "analyze"
  /\ options.year = Str(<<"2", "0", "2", "5", "-", "2", "0", "2", "3">>)
  /\ evaluated = {"parseYearOption"}

----------------------------------------------------------------------------
(* RankingExecutor.execute, after the per-author statistics are collected *)

\* `if (options.merge && mergeMap && mergeMap.size > 0)`
MergeApplies(o, map) == o.merge /\ DOMAIN map # {}

\* lines 156-160 of ranking.ts
MergeAuthors ==
  /\ pc = "collected"
  /\ authorStats' = IF MergeApplies(options, mergeMap)
                      THEN mergeAuthorStats(authorStats, mergeMap)
                      ELSE authorStats
  /\ pc' = "merged"
  /\ UNCHANGED <<fn, options, env, result, evaluated, stats, mergeMap, repo, trace, tasks,
                 output>>

\* lines 162-179 of ranking.ts
SortAuthors ==
  /\ pc = "merged"
  /\ authorStats' = SortAuthorStats(authorStats, options)
  /\ pc' = "sorted"
  /\ UNCHANGED <<fn, options, env, result, evaluated, stats, mergeMap, repo, trace, tasks,
                 output>>

MaxStats == 3

Identity(name, email) == [name |-> name, email |-> email]

Identities ==
  {Identity("Ann", <<"a", "@", "x">>), Identity("Ann", <<"a", "@", "y">>),
   Identity("Annie", <<"A", "@", "x">>),
   Identity("Bob", <<"b", "@", "x">>)}

Profile(total, y, x, m, n, index, ratio) ==
  [totalCommits |-> total, workingHourCommits |-> y, overtimeCommits |-> x,
   weekdayCommits |-> m, weekendCommits |-> n, index996 |-> index,
   overTimeRadio |-> ratio]

Profiles ==
  {Profile(40, 30, 10, 35, 5, Rat(2, 1), 35),
   Profile(6, 6, 0, 6, 0, Rat(0 - 1, 1), 0),
   Profile(5, 1, 4, 2, 3, Rat(1, 2), 100)}

\* the AuthorStats built at lines 127-138 of ranking.ts
AuthorStat(id, p) ==
  [name |-> id.name, email |-> id.email, totalCommits |-> p.totalCommits,
   index996 |-> p.index996, index996Str |-> ToFixed2(p.index996),
   overTimeRadio |-> p.overTimeRadio,
   workingHourCommits |-> p.workingHourCommits,
   overtimeCommits |-> p.overtimeCommits,
   weekdayCommits |-> p.weekdayCommits, weekendCommits |-> p.weekendCommits]

\* one AuthorStats per author of allAuthors, in the order getAllAuthors gave
StatInputs ==
  UNION {{[i \in 1..k |-> AuthorStat(c[i][1], c[i][2])] :
            c \in {f \in [1..k -> Identities \X Profiles] :
                     \A i, j \in 1..k : i # j => f[i][1] # f[j][1]}} :
         k \in 1..MaxStats}

\* an alias and the primary it is redirected to: the same name, another email
AliasRules ==
  {r \in Identities \X Identities :
     r[1].name = r[2].name /\ ToLowerCase(r[1].email) # ToLowerCase(r[2].email)}

\* the maps getMergeMap can hand back: lowercase alias email -> primary,
\* primaries themselves not redirected
MergeMapInputs ==
  {[k \in {ToLowerCase(r[1].email) : r \in R} |->
      (CHOOSE r \in R : ToLowerCase(r[1].email) = k)[2]] :
     R \in {Q \in SUBSET AliasRules :
              /\ \A q1, q2 \in Q :
                   ToLowerCase(q1[1].email) = ToLowerCase(q2[1].email) => q1 = q2
              /\ \A q1, q2 \in Q :
                   ToLowerCase(q1[2].email) # ToLowerCase(q2[1].email)}}

InitMerge ==
  /\ pc = "collected"
  /\ fn = "ranking"
  /\ options \in [allTime : {FALSE}, days : {Undefined}, year : {Undefined},
                  since : {Undefined}, until : {Undefined}, merge : BOOLEAN,
                  sortBy : {Undefined}]
  /\ env \in [today : {DaysFromCivil(2025, 1, 15)}, lastCommit : {Lookup(FALSE, Undefined)},
              firstCommit : {Lookup(FALSE, Undefined)}, tz : {0}]
  /\ result = NoResult
  /\ evaluated = {}
  /\ stats \in StatInputs
  /\ mergeMap \in MergeMapInputs
  /\ authorStats = stats
  /\ RunIdle(Repository(<<>>, "none"))

NextMerge == MergeAuthors

SpecMerge == InitMerge /\ [][NextMerge]_vars

Merged == pc = "merged"

\* the fields the claims compare (index996Str is a rendering of index996)
Compared(a) ==
  [name |-> a.name, email |-> a.email, totalCommits |-> a.totalCommits,
   index996 |-> a.index996, overTimeRadio |-> a.overTimeRadio,
   workingHourCommits |-> a.workingHourCommits,
   overtimeCommits |-> a.overtimeCommits,
   weekdayCommits |-> a.weekdayCommits, weekendCommits |-> a.weekendCommits]

RecordSet(list) == {Compared(list[i]) : i \in 1..Len(list)}

Reordered(list, p) == [i \in 1..Len(list) |-> list[p[i]]]

\* C8: for a fixed merge map and a fixed set of input stats, every order of the
\* input gives the same set of merged records (name, email, counts, index996,
\* overTimeRadio).
C8_MergeOrderIndependent ==
  (Merged /\ MergeApplies(options, mergeMap)) =>
    \A p \in Permutations(1..Len(stats)) :
      RecordSet(mergeAuthorStats(Reordered(stats, p), mergeMap)) = RecordSet(authorStats)

AllCanonical(list, map) ==
  \A i \in 1..Len(list) : ToLowerCase(list[i].email) \notin DOMAIN map

\* C9: merging stats whose identities are all canonical (no stat's lowercase
\* email is a key of the merge map) returns exactly the input stats.
C9_CanonicalMergeIsNoOp ==
  (Merged /\ AllCanonical(stats, mergeMap)) => authorStats = stats

\* the key a stat is routed to, read off the merge map
RoutedKey(stat, map) ==
  ToLowerCase(IF ToLowerCase(stat.email) \in DOMAIN map
                THEN map[ToLowerCase(stat.email)].email
                ELSE stat.email)

RECURSIVE SumField(_, _)
SumField(list, f) ==
  IF Len(list) = 0 THEN 0 ELSE Head(list)[f] + SumField(Tail(list), f)

CountFields ==
  {"totalCommits", "workingHourCommits", "overtimeCommits", "weekdayCommits",
   "weekendCommits"}

\* C10: each output record's five counts are the sums of those counts over the
\* input stats routed to its primary identity, so each count's total over the
\* outputs equals its total over the inputs.
C10_MergeCountsAdditive ==
  (Merged /\ MergeApplies(options, mergeMap)) =>
    \A f \in CountFields :
      /\ \A i \in 1..Len(authorStats) :
           LET Routed(a) == RoutedKey(a, mergeMap) = ToLowerCase(authorStats[i].email)
           IN authorStats[i][f] = SumField(SelectSeq(stats, Routed), f)
      /\ SumField(authorStats, f) = SumField(stats, f)

C10_Witness ==
  /\ Merged
  /\ MergeApplies(options, mergeMap)
  /\ Len(stats) = 3
  /\ Len(authorStats) = 2
  /\ \E i \in 1..2 : authorStats[i].totalCommits = 45 /\ authorStats[i].weekendCommits = 8

\* both partitions of a record's commits add up to its totalCommits
BucketsAgree(a) ==
  /\ a.workingHourCommits + a.overtimeCommits = a.totalCommits
  /\ a.weekdayCommits + a.weekendCommits = a.totalCommits

\* C11: every AuthorStats of the ranking, before and after mergeAuthorStats,
\* has workingHourCommits + overtimeCommits = weekdayCommits + weekendCommits
\* = totalCommits; the merge keeps the equality of its inputs.
C11_BucketsAddUp ==
  /\ \A i \in 1..Len(stats) : BucketsAgree(stats[i])
  /\ \A i \in 1..Len(authorStats) : BucketsAgree(authorStats[i])

C11_Witness ==
  /\ Merged
  /\ MergeApplies(options, mergeMap)
  /\ Len(stats) = 3
  /\ Len(authorStats) = 1
  /\ authorStats[1].totalCommits = 51
  /\ authorStats[1].overtimeCommits = 14

\* the stats of the input routed to the record out
RoutedTo(out) ==
  LET Routed(a) == RoutedKey(a, mergeMap) = ToLowerCase(out.email)
  IN SelectSeq(stats, Routed)

\* the sum of index996 * totalCommits over a list of stats
RECURSIVE WeightedIndexSum(_)
WeightedIndexSum(list) ==
  IF Len(list) = 0 THEN Rat(0, 1)
  ELSE RatAdd(RatScale(Head(list).index996, Head(list).totalCommits),
              WeightedIndexSum(Tail(list)))

\* the records in the Map before the i-th stat is looked at
MergedBefore(i) == MergeLoop(<<>>, SubSeq(stats, 1, i - 1), mergeMap)

\* C17: a fold of an incoming stat into an existing record sets index996 to
\* (oldIndex * oldTotal + incomingIndex * incomingTotal) / (oldTotal +
\* incomingTotal), oldTotal being the record's totalCommits before the fold;
\* so each merged record's index996 is the commit-weighted mean of the indices
\* of the stats routed to it.
C17_IndexIsWeightedMean ==
  (Merged /\ MergeApplies(options, mergeMap)) =>
    /\ \A i \in 1..Len(stats) :
         LET before == MergedBefore(i)
             at == EntryAt(before, RoutedKey(stats[i], mergeMap))
         IN at # 0 =>
              LET old == before[at].value
                  new == MergeStat(before, stats[i], mergeMap)[at].value
              IN /\ new.totalCommits = old.totalCommits + stats[i].totalCommits
                 /\ RatScale(new.index996, old.totalCommits + stats[i].totalCommits)
                      = RatAdd(RatScale(old.index996, old.totalCommits),
                               RatScale(stats[i].index996, stats[i].totalCommits))
    /\ \A i \in 1..Len(authorStats) :
         RatScale(authorStats[i].index996, SumField(RoutedTo(authorStats[i]), "totalCommits"))
           = WeightedIndexSum(RoutedTo(authorStats[i]))

\* three stats with the indices 2, -1 and 1/2 folded into one record
C17_Witness ==
  /\ Merged
  /\ MergeApplies(options, mergeMap)
  /\ Len(stats) = 3
  /\ Len(authorStats) = 1
  /\ {stats[i].index996 : i \in 1..3} = {Rat(2, 1), Rat(0 - 1, 1), Rat(1, 2)}
  /\ \A i \in 1..3 : authorStats[1].index996 # stats[i].index996

----------------------------------------------------------------------------
(* mergeAuthorStats over many bucket counts: an alias folded into its primary *)

\* `if (rawData.totalCommits < 5)`: the fewest commits an author is kept with
MinAuthorCommits == 5

MaxCommits == 20

\* every way of splitting total commits into the two partitions
CountProfiles ==
  UNION {{Profile(total, y, total - y, m, total - m, Rat(1, 1),
                  OverTimePercent(total - y, y, m, total - m)) :
            y \in 0..total, m \in 0..total} :
         total \in MinAuthorCommits..MaxCommits}

InitRatio ==
  /\ pc = "collected"
  /\ fn = "ranking"
  /\ options \in [allTime : {FALSE}, days : {Undefined}, year : {Undefined},
                  since : {Undefined}, until : {Undefined}, merge : {TRUE},
                  sortBy : {Undefined}]
  /\ env \in [today : {DaysFromCivil(2025, 1, 15)}, lastCommit : {Lookup(FALSE, Undefined)},
              firstCommit : {Lookup(FALSE, Undefined)}, tz : {0}]
  /\ result = NoResult
  /\ evaluated = {}
  /\ \E p \in CountProfiles, q \in Profiles :
       stats = <<AuthorStat(Identity("Ann", <<"a", "@", "x">>), p),
                 AuthorStat(Identity("Ann", <<"a", "@", "y">>), q)>>
  /\ mergeMap = [k \in {<<"a", "@", "y">>} |-> Identity("Ann", <<"a", "@", "x">>)]
  /\ authorStats = stats
  /\ RunIdle(Repository(<<>>, "none"))

NextRatio == MergeAuthors

SpecRatio == InitRatio /\ [][NextRatio]_vars

\* C12: the ratio mergeAuthorStats computes for a merged record is within 0..100,
\* and one more (one fewer) overtime commit with the other three counts unchanged
\* gives a ratio that is not smaller (not larger).
C12_RatioBoundedAndMonotone ==
  (Merged /\ Len(authorStats) = 1) =>
    LET r == authorStats[1]
        x == r.overtimeCommits
        y == r.workingHourCommits
        m == r.weekdayCommits
        n == r.weekendCommits
    IN /\ 0 <= r.overTimeRadio
       /\ r.overTimeRadio <= 100
       /\ r.overTimeRadio <= OverTimePercent(x + 1, y, m, n)
       /\ (x > 0 /\ y + x - 1 > 0) => OverTimePercent(x - 1, y, m, n) <= r.overTimeRadio

\* 11 of 20 commits after the weekend correction: (11 / 20) * 100 is
\* 55.00000000000001 in double arithmetic
C12_Witness ==
  /\ Merged
  /\ Len(authorStats) = 1
  /\ authorStats[1].totalCommits = 20
  /\ authorStats[1].overtimeCommits = 10
  /\ authorStats[1].weekendCommits = 2
  /\ authorStats[1].overTimeRadio = 56

\* ceil(round(x + y*n/(m+n)) / (y+x) * 100) in exact arithmetic
ExactPercent(x, y, m, n) ==
  LET amended == x + (2 * y * n + (m + n)) \div (2 * (m + n))
  IN (100 * amended + (y + x) - 1) \div (y + x)

\* C18: a record folded from two or more stats has overTimeRadio =
\* ceil(round(x + y*n/(m+n)) / (y+x) * 100) over its summed counts x, y, m, n.
C18_RatioFromSummedCounts ==
  (Merged /\ Len(stats) >= 2 /\ Len(authorStats) = 1) =>
    authorStats[1].overTimeRadio =
      ExactPercent(SumField(stats, "overtimeCommits"), SumField(stats, "workingHourCommits"),
                   SumField(stats, "weekdayCommits"), SumField(stats, "weekendCommits"))

----------------------------------------------------------------------------
(* The sort over many lists of author statistics *)

MaxRanked == 3

\* index996, totalCommits and overtimeCommits of the authors to rank
RankedProfiles ==
  {Profile(t[2], t[2] - t[3], t[3], t[2], 0, t[1], OverTimePercent(t[3], t[2] - t[3], t[2], 0)) :
     t \in {<<Rat(0 - 5, 1), 150, 60>>, <<Rat(0 - 5, 1), 5, 0>>,
            <<Rat(0 - 1, 2), 40, 10>>, <<Rat(0 - 1, 2), 150, 0>>,
            <<Rat(0, 1), 5, 0>>, <<Rat(0, 1), 40, 10>>,
            <<Rat(1, 10), 5, 0>>, <<Rat(1, 10), 40, 0>>, <<Rat(1, 10), 150, 60>>,
            <<Rat(2, 1), 5, 4>>, <<Rat(2, 1), 40, 10>>, <<Rat(2, 1), 150, 10>>}}

\* the author at position i of the list handed to the sort
RankedIdentity(i) == Identity(<<"a", "u", "t", "h", "o", "r">> \o IntToString(i),
                              <<"a">> \o IntToString(i) \o <<"@", "x">>)

SortByInputs ==
  {Undefined, Str(<<"index">>), Str(<<"overtime">>), Str(<<"commits">>), Str(<<"score">>),
   Str(<<"name">>)}

InitSort ==
  /\ pc = "merged"
  /\ fn = "ranking"
  /\ options \in [allTime : {FALSE}, days : {Undefined}, year : {Undefined},
                  since : {Undefined}, until : {Undefined}, merge : {FALSE},
                  sortBy : SortByInputs]
  /\ env \in [today : {DaysFromCivil(2025, 1, 15)}, lastCommit : {Lookup(FALSE, Undefined)},
              firstCommit : {Lookup(FALSE, Undefined)}, tz : {0}]
  /\ result = NoResult
  /\ evaluated = {}
  /\ \E k \in 1..MaxRanked : \E f \in [1..k -> RankedProfiles] :
       stats = [i \in 1..k |-> AuthorStat(RankedIdentity(i), f[i])]
  /\ mergeMap = <<>>
  /\ authorStats = stats
  /\ RunIdle(Repository(<<>>, "none"))

NextSort == SortAuthors

SpecSort == InitSort /\ [][NextSort]_vars

Sorted == pc = "sorted"

ScoreMode(o) == o.sortBy \notin {Str(<<"index">>), Str(<<"overtime">>), Str(<<"commits">>)}

\* index996 * min(1, log10(max(1, totalCommits)) / 2) + min(overtimeCommits, 50) / 5
\* is at least zero when index996 is
ScoreIsNegative(a) == RatLess(calculateRankingScore(a), Rat(0, 1))

\* C13: in score mode every author with index996 < 0 has a score strictly
\* below that of every author with index996 >= 0, whatever their commit
\* counts, and stands behind all of them in the sorted list.
C13_NegativeIndexRanksLast ==
  (Sorted /\ ScoreMode(options)) =>
    \A i, j \in 1..Len(authorStats) :
      (authorStats[i].index996.n < 0 /\ authorStats[j].index996.n >= 0) =>
        /\ RatLess(calculateRankingScore(authorStats[i]), calculateRankingScore(authorStats[j]))
        /\ ScoreIsNegative(authorStats[i])
        /\ ~ScoreIsNegative(authorStats[j])
        /\ j < i

C13_Witness ==
  /\ Sorted
  /\ options.sortBy = Undefined
  /\ Len(stats) = 3
  /\ stats[1].index996 = Rat(0 - 1, 2) /\ stats[1].totalCommits = 40
  /\ stats[2].index996 = Rat(0 - 5, 1) /\ stats[2].overtimeCommits = 60
  /\ stats[3].index996 = Rat(1, 10) /\ stats[3].totalCommits = 5
  /\ authorStats = <<stats[3], stats[1], stats[2]>>

\* the four modes, and score when no mode is given
ModeIsNamed(o) ==
  o.sortBy \in {Undefined, Str(<<"index">>), Str(<<"overtime">>), Str(<<"commits">>),
                Str(<<"score">>)}

\* the key of the mode the options name
KeyOf(a, o) ==
  IF o.sortBy = Str(<<"index">>) THEN a.index996
  ELSE IF o.sortBy = Str(<<"overtime">>) THEN Rat(a.overtimeCommits, 1)
  ELSE IF o.sortBy = Str(<<"commits">>) THEN Rat(a.totalCommits, 1)
  ELSE calculateRankingScore(a)

\* where the author of a sorted record stood before the sort
PlaceBefore(a) == CHOOSE k \in 1..Len(stats) : stats[k].email = a.email

\* C19: in each sort mode (index, overtime, commits, score; score when none is
\* given) the sorted list holds the same authors in descending order of the
\* mode's key, and authors with equal keys keep the order they had before.
C19_DescendingAndStable ==
  (Sorted /\ ModeIsNamed(options)) =>
    /\ Len(authorStats) = Len(stats)
    /\ {authorStats[i] : i \in 1..Len(authorStats)} = {stats[i] : i \in 1..Len(stats)}
    /\ \A i, j \in 1..Len(authorStats) :
         i < j =>
           /\ ~RatLess(KeyOf(authorStats[i], options), KeyOf(authorStats[j], options))
           /\ KeyOf(authorStats[i], options) = KeyOf(authorStats[j], options) =>
                PlaceBefore(authorStats[i]) < PlaceBefore(authorStats[j])

\* by commits: 40, 150, 40 becomes 150, 40, 40 with the two 40s in input order
C19_Witness ==
  /\ Sorted
  /\ options.sortBy = Str(<<"commits">>)
  /\ Len(stats) = 3
  /\ stats[1].totalCommits = 40 /\ stats[2].totalCommits = 150 /\ stats[3].totalCommits = 40
  /\ stats[1].index996 # stats[3].index996
  /\ authorStats = <<stats[2], stats[1], stats[3]>>

----------------------------------------------------------------------------
(* The three commands after the time range is resolved *)

\* the minimum handed to ensureCommitSamples by all three commands
MinRepoCommits == 20

RECURSIVE CommitCount(_)
CommitCount(authors) ==
  IF Len(authors) = 0 THEN 0
  ELSE Head(authors).profile.totalCommits + CommitCount(Tail(authors))

\* cli/common/commit-guard.ts: whether the window holds at least min commits
ensureCommitSamples(r, min) == CommitCount(r.authors) >= min

\* the gate with its answer ignored: the command goes on whatever the count
GateWithoutReturn(name, at) ==
  /\ pc = at
  /\ fn = name
  /\ trace' = Append(trace, "ensureCommitSamples")
  /\ pc' = IF repo.failAt = "ensureCommitSamples" THEN "exit" ELSE "gated"
  /\ UNCHANGED <<fn, options, env, result, evaluated, stats, mergeMap, authorStats, repo,
                 tasks, output>>

\* `await ensureCommitSamples(...)` and `if (!hasEnoughCommits) return`; an
\* error of the data source goes to the catch of execute
Gate(name, at) ==
  /\ pc = at
  /\ fn = name
  /\ trace' = Append(trace, "ensureCommitSamples")
  /\ pc' = IF repo.failAt = "ensureCommitSamples" THEN "exit"
           ELSE IF ~ensureCommitSamples(repo, MinRepoCommits) THEN "done"
           ELSE "gated"
  /\ UNCHANGED <<fn, options, env, result, evaluated, stats, mergeMap, authorStats, repo,
                 tasks, output>>

\* a step of a command that calls the data source and either fails into
\* `failed` or goes on to `next`
Step(name, at, call, failed, next, out) ==
  /\ pc = at
  /\ fn = name
  /\ trace' = Append(trace, call)
  /\ pc' = IF repo.failAt = call THEN failed ELSE next
  /\ output' = IF repo.failAt = call THEN output ELSE out
  /\ UNCHANGED <<fn, options, env, result, evaluated, stats, mergeMap, authorStats, repo,
                 tasks>>

\* AnalyzeExecutor.execute, lines 78-82
AnalyzeEnsureCommitSamples == Gate("analyze", "resolved")

\* AnalyzeExecutor.execute, lines 84-127: collect, parse, compute, print
AnalyzeCollect ==
  Step("analyze", "gated", "collect", "exit", "done", [kind |-> "analysis", authors |-> <<>>])

\* TrendExecutor.execute, lines 33-43: a failing author filter exits
TrendBuildAuthorFilter ==
  Step("trend", "resolved", "buildAuthorFilter", "exit", "filtered", output)

\* TrendExecutor.execute, lines 54-58
TrendEnsureCommitSamples == Gate("trend", "filtered")

\* TrendExecutor.execute, lines 60-69
TrendAnalyzeTrend ==
  Step("trend", "gated", "analyzeTrend", "exit", "done", [kind |-> "trend", authors |-> <<>>])

\* RankingExecutor.execute, lines 63-67
RankingEnsureCommitSamples == Gate("ranking", "resolved")

\* RankingExecutor.execute, line 74
RankingGetAllAuthors == Step("ranking", "gated", "getAllAuthors", "exit", "authors", output)

\* core/author-merger.ts, getMergeMap: an identity whose name an earlier
\* identity of the list bears under another email is an alias of the first
\* identity with that name
getMergeMap(authors) ==
  LET First(i) == CHOOSE j \in 1..i :
                    authors[j].name = authors[i].name
                    /\ \A k \in 1..(j - 1) : authors[k].name # authors[i].name
      aliases == {i \in 1..Len(authors) :
                    ToLowerCase(authors[First(i)].email) # ToLowerCase(authors[i].email)}
      keys == {ToLowerCase(authors[i].email) : i \in aliases}
  IN [k \in keys |->
        LET i == CHOOSE a \in aliases : ToLowerCase(authors[a].email) = k
        IN Identity(authors[First(i)].name, authors[First(i)].email)]

Pending == [state |-> "pending", value |-> <<>>]

Null == [state |-> "null", value |-> <<>>]

Rejected == [state |-> "rejected", value |-> <<>>]

\* RankingExecutor.execute, lines 75-108: the author filter (no author option
\* is given, so no pattern narrows allAuthors), the merge map, and the start of
\* one task per author
RankingBuildAuthorFilter ==
  /\ pc = "authors"
  /\ fn = "ranking"
  /\ trace' = Append(trace, "buildAuthorFilter")
  /\ IF repo.failAt = "buildAuthorFilter" \/ Len(repo.authors) = 0
       THEN pc' = "done" /\ UNCHANGED <<mergeMap, tasks>>
       ELSE /\ pc' = "fanout"
            /\ mergeMap' = IF options.merge THEN getMergeMap(repo.authors) ELSE <<>>
            /\ tasks' = [i \in 1..Len(repo.authors) |-> Pending]
  /\ UNCHANGED <<fn, options, env, result, evaluated, stats, authorStats, repo, output>>

\* the per-author function with the rejection let through
AnalyzeAuthorNoCatch(author) ==
  IF author.fails # "none" THEN Rejected
  ELSE IF author.profile.totalCommits < MinAuthorCommits THEN Null
  ELSE [state |-> "stats",
        value |-> <<AuthorStat(Identity(author.name, author.email), author.profile)>>]

\* the per-author function with the whole-repository minimum as its floor
AnalyzeAuthorRepoFloor(author) ==
  IF author.fails # "none" THEN Null
  ELSE IF author.profile.totalCommits < MinRepoCommits THEN Null
  ELSE [state |-> "stats",
        value |-> <<AuthorStat(Identity(author.name, author.email), author.profile)>>]

\* the async function of lines 111-146: what its promise resolves to
AnalyzeAuthor(author) ==
  IF author.fails # "none" THEN Null
  ELSE IF author.profile.totalCommits < MinAuthorCommits THEN Null
  ELSE [state |-> "stats",
        value |-> <<AuthorStat(Identity(author.name, author.email), author.profile)>>]

\* one author's task runs to its end; the tasks finish in any order
CollectForAuthor(i) ==
  /\ pc = "fanout"
  /\ fn = "ranking"
  /\ tasks[i] = Pending
  /\ tasks' = [tasks EXCEPT ![i] = AnalyzeAuthor(repo.authors[i])]
  /\ trace' = Append(trace, "collectForAuthor")
  /\ UNCHANGED <<pc, fn, options, env, result, evaluated, stats, mergeMap, authorStats,
                 repo, output>>

\* authorStatsResults.filter(stats => stats !== null)
RECURSIVE NonNull(_)
NonNull(results) ==
  IF Len(results) = 0 THEN <<>>
  ELSE Head(results).value \o NonNull(Tail(results))

\* RankingExecutor.execute, lines 148-212: Promise.all has settled; filter,
\* merge, sort and print, or stop when nothing is left
RankAuthors ==
  /\ pc = "fanout"
  /\ fn = "ranking"
  /\ \A i \in 1..Len(tasks) : tasks[i] # Pending
  /\ trace' = Append(trace, "rank")
  /\ IF \E i \in 1..Len(tasks) : tasks[i] = Rejected
       THEN pc' = "exit" /\ UNCHANGED <<stats, authorStats, output>>
       ELSE LET collected == NonNull(tasks)
                merged == IF MergeApplies(options, mergeMap)
                            THEN mergeAuthorStats(collected, mergeMap)
                            ELSE collected
                sorted == SortAuthorStats(merged, options)
            IN /\ stats' = collected
               /\ pc' = "done"
               /\ IF Len(collected) = 0
                    THEN UNCHANGED <<authorStats, output>>
                    ELSE /\ authorStats' = sorted
                         /\ output' = [kind |-> "ranking", authors |-> sorted]
  /\ UNCHANGED <<fn, options, env, result, evaluated, mergeMap, repo, tasks>>

MaxAuthors == 3

\* the authors getAllAuthors can list
RepoIdentities ==
  {Identity("alice", <<"a", "l", "@", "x">>), Identity("alice", <<"a", "l", "@", "y">>),
   Identity("bob", <<"b", "o", "@", "x">>)}

\* what the analysis of one author yields
RepoProfiles ==
  Profiles \cup {Profile(3, 2, 1, 3, 0, Rat(0, 1), 34)}

\* an author of the window: who it is, what its analysis yields, and the call
\* of its analysis that throws, if any
RepoAuthors ==
  [name : {id.name : id \in RepoIdentities}, email : {id.email : id \in RepoIdentities},
   profile : RepoProfiles, fails : {"none", "collectForAuthor", "calculate996Index"}]

AuthorLists(k) ==
  {f \in [1..k -> RepoAuthors] :
     /\ \A i \in 1..k : Identity(f[i].name, f[i].email) \in RepoIdentities
     /\ \A i, j \in 1..k : i # j => f[i].email # f[j].email}

\* the repositories the commands run on; the calls outside the per-author
\* analysis fail only on repositories of at most one author
RepoInputs ==
  {Repository(authors, "none") : authors \in UNION {AuthorLists(k) : k \in 0..MaxAuthors}}
  \cup {Repository(authors, failAt) :
          authors \in AuthorLists(0) \cup AuthorLists(1),
          failAt \in {"ensureCommitSamples", "getAllAuthors", "buildAuthorFilter",
                      "collect", "analyzeTrend"}}

InitRun ==
  /\ pc = "start"
  /\ fn = ""
  /\ options \in [allTime : {FALSE}, days : {Undefined}, year : {Undefined},
                  since : {Undefined}, until : {Undefined}, merge : BOOLEAN,
                  sortBy : {Undefined}]
  /\ env \in [today : {DaysFromCivil(2025, 1, 15)},
              lastCommit : {Lookup(FALSE, Str(<<"2", "0", "2", "4", "-", "1", "1", "-", "3", "0">>))},
              firstCommit : {Lookup(FALSE, Undefined)}, tz : {0}]
  /\ result = NoResult
  /\ evaluated = {}
  /\ MergeIdle
  /\ \E r \in RepoInputs : RunIdle(r)

NextRun ==
  \/ AnalyzeResolveTimeRange
  \/ AnalyzeEnsureCommitSamples
  \/ AnalyzeCollect
  \/ TrendResolveTimeRange
  \/ TrendBuildAuthorFilter
  \/ TrendEnsureCommitSamples
  \/ TrendAnalyzeTrend
  \/ RankingResolveTimeRange
  \/ RankingEnsureCommitSamples
  \/ RankingGetAllAuthors
  \/ RankingBuildAuthorFilter
  \/ \E i \in 1..Len(tasks) : CollectForAuthor(i)
  \/ RankAuthors

SpecRun == InitRun /\ [][NextRun]_vars

Done == pc = "done"

\* the analysis of the author neither throws nor finds fewer than 5 commits
Succeeded(a) == a.fails = "none" /\ a.profile.totalCommits >= MinAuthorCommits

StatOf(a) == AuthorStat(Identity(a.name, a.email), a.profile)

InList(list, x) == \E k \in 1..Len(list) : list[k] = x

\* the printed ranking holds the author, under its primary identity if merged
Ranked(a) ==
  /\ output.kind = "ranking"
  /\ IF MergeApplies(options, mergeMap)
       THEN \E k \in 1..Len(output.authors) :
              ToLowerCase(output.authors[k].email) = RoutedKey(StatOf(a), mergeMap)
       ELSE InList(output.authors, StatOf(a))

\* C14: once the per-author analysis has started, the ranking run never exits
\* with an error because an author's analysis throws: that author is left out,
\* every author analysed successfully with at least 5 commits is in the
\* collected statistics and in the printed ranking, and a run in which no
\* author remains returns without printing and without exit code 1.
C14_AuthorFailureIsTolerated ==
  fn = "ranking" =>
    /\ pc = "exit" => tasks = <<>>
    /\ (Done /\ tasks # <<>>) =>
         /\ \A i \in 1..Len(repo.authors) :
              /\ Succeeded(repo.authors[i]) =>
                   InList(stats, StatOf(repo.authors[i])) /\ Ranked(repo.authors[i])
              /\ ~Succeeded(repo.authors[i]) => ~InList(stats, StatOf(repo.authors[i]))
         /\ (\A i \in 1..Len(repo.authors) : ~Succeeded(repo.authors[i])) =>
              output = NoOutput /\ authorStats = <<>>

C14_Witness ==
  /\ Done
  /\ fn = "ranking"
  /\ Len(repo.authors) = 3
  /\ repo.authors[1].fails = "collectForAuthor"
  /\ repo.authors[2].fails = "calculate996Index"
  /\ Succeeded(repo.authors[3])
  /\ output.kind = "ranking"
  /\ tasks[1] = Null
  /\ output.authors = <<StatOf(repo.authors[3])>>

\* alice: 40 commits, 30 working-hour / 10 overtime, 35 weekday / 5 weekend
IsAlice(a) ==
  /\ a.name = "alice"
  /\ a.profile.totalCommits = 40
  /\ a.profile.workingHourCommits = 30 /\ a.profile.overtimeCommits = 10
  /\ a.profile.weekdayCommits = 35 /\ a.profile.weekendCommits = 5

\* bob: 6 commits, all working-hour, all weekday
IsBob(a) ==
  /\ a.name = "bob"
  /\ a.profile.totalCommits = 6
  /\ a.profile.workingHourCommits = 6 /\ a.profile.overtimeCommits = 0
  /\ a.profile.weekdayCommits = 6 /\ a.profile.weekendCommits = 0

\* a finished ranking run on the repository of alice and bob, nothing failing
ExampleRun ==
  /\ Done
  /\ fn = "ranking"
  /\ repo.failAt = "none"
  /\ Len(repo.authors) = 2
  /\ \A i \in 1..2 : repo.authors[i].fails = "none"
  /\ \E i, j \in 1..2 : IsAlice(repo.authors[i]) /\ IsBob(repo.authors[j])

\* C15: on the repository of alice (40 commits) and bob (6 commits) the ranking
\* run excludes bob, and the ranking holds alice alone.
C15_AliceAlone ==
  ExampleRun =>
    /\ output.kind = "ranking"
    /\ Len(output.authors) = 1
    /\ output.authors[1].name = "alice"

\* C15 as amended: on that repository the run keeps bob, whose 6 commits are
\* not below the per-author floor of 5, and the ranking holds exactly alice and
\* bob, each with the counts, index and ratio of its analysis.
C15_AliceAndBobRanked ==
  ExampleRun =>
    /\ output.kind = "ranking"
    /\ Len(output.authors) = 2
    /\ \A i \in 1..2 : InList(output.authors, StatOf(repo.authors[i]))
    /\ \E k \in 1..2 : output.authors[k].name = "alice" /\ output.authors[k].totalCommits = 40
    /\ \E k \in 1..2 : output.authors[k].name = "bob" /\ output.authors[k].totalCommits = 6

C15_Witness ==
  /\ ExampleRun
  /\ IsBob(repo.authors[1])
  /\ Len(output.authors) = 2
  /\ output.authors[1].name = "alice"
  /\ output.authors[2].name = "bob"

\* the steps that collect or analyse commits
AnalysisSteps == {"collect", "getAllAuthors", "collectForAuthor", "analyzeTrend", "rank"}

\* the commits of the window, counted author by author
WindowCommits ==
  LET RECURSIVE Upto(_)
      Upto(k) == IF k = 0 THEN 0 ELSE repo.authors[k].profile.totalCommits + Upto(k - 1)
  IN Upto(Len(repo.authors))

\* the gate has answered that the window holds too few commits
GateRefused ==
  /\ \E k \in 1..Len(trace) : trace[k] = "ensureCommitSamples"
  /\ repo.failAt # "ensureCommitSamples"
  /\ WindowCommits < 20

\* C20: in analyze, ranking and trend the 20-commit gate is evaluated before
\* any collection, per-author fan-out or trend analysis; when it reports too
\* few commits the command returns: no later step runs, nothing is rendered
\* and the process does not exit with an error.
C20_GateComesFirst ==
  /\ \A k \in 1..Len(trace) :
       trace[k] \in AnalysisSteps =>
         /\ \E j \in 1..(k - 1) : trace[j] = "ensureCommitSamples"
         /\ WindowCommits >= 20
  /\ GateRefused =>
       /\ pc = "done"
       /\ trace[Len(trace)] = "ensureCommitSamples"
       /\ output = NoOutput
       /\ tasks = <<>>

\* trend on a window of 11 commits: the author filter, the gate, the return
C20_Witness ==
  /\ fn = "trend"
  /\ GateRefused
  /\ WindowCommits = 11
  /\ trace = <<"buildAuthorFilter", "ensureCommitSamples">>
  /\ pc = "done"

----------------------------------------------------------------------------
(* The auto-last-commit tier over many last-commit dates *)

MaxLastSpan == 3

LastCommitBases ==
  {DaysFromCivil(2024, 11, 29), DaysFromCivil(2024, 2, 27), DaysFromCivil(2025, 2, 26),
   DaysFromCivil(2001, 2, 27), DaysFromCivil(2100, 12, 30), DaysFromCivil(1970, 1, 1),
   DaysFromCivil(1970, 12, 30), DaysFromCivil(1971, 12, 30)}

InitLast ==
  InitResolve(
    [allTime : {FALSE}, days : {Undefined}, year : {Undefined},
     since : {Undefined}, until : {Undefined}, merge : {FALSE}, sortBy : {Undefined}],
    [today : {DaysFromCivil(2025, 1, 15)},
     lastCommit : {Lookup(FALSE, Str(FormatYMD(CivilFromDays(b + k)))) :
                     b \in LastCommitBases, k \in 0..MaxLastSpan},
     firstCommit : {Lookup(FALSE, Undefined)}, tz : {0 - 8, 0, 8}])

NextLast ==
  \/ AnalyzeResolveTimeRange
  \/ RankingResolveTimeRange
  \/ TrendResolveTimeRange

SpecLast == InitLast /\ [][NextLast]_vars

\* the calendar date a YYYY-MM-DD text names
TextCivil(s) ==
  [y |-> DigitsValue(SubSeq(s, 1, 4)), m |-> DigitsValue(SubSeq(s, 6, 7)),
   d |-> DigitsValue(SubSeq(s, 9, 10))]

\* C16: with no range option given and the last-commit lookup returning date D,
\* the resolver returns until = D and since = D - 365 days, or 1970-01-01 if
\* that is earlier, with mode auto-last-commit and a note; since is never
\* before 1970-01-01 and never after until.
C16_AutoLastCommitWindow ==
  (Finished /\ NoRangeOption /\ ~LookupFailed(env.lastCommit)) =>
    LET last == env.lastCommit.value.s
        back == MinusDays(TextCivil(last), 365)
    IN /\ pc = "resolved"
       /\ result.kind = "return"
       /\ result.until = Str(last)
       /\ result.since = IF back.y < 1970 THEN Str(Epoch) ELSE Str(FormatYMD(back))
       /\ TextCivil(result.since.s).y >= 1970
       /\ TextDay(result.since.s) <= TextDay(result.until.s)
       /\ TextDay(result.until.s) - TextDay(result.since.s) <= 365
       /\ fn \in {"analyze", "ranking"} =>
            /\ result.mode = "auto-last-commit"
            /\ Truthy(result.note)
            /\ evaluated = {"getLastCommitDate"}

\* 1970-12-31 minus 365 days is 1969-12-31: clamped
C16_Witness ==
  /\ Resolved
  /\ fn = "ranking"
  /\ env.tz = 8
  /\ env.lastCommit.value = Str(<<"1", "9", "7", "0", "-", "1", "2", "-", "3", "1">>)
  /\ result.since = Str(Epoch)
  /\ result.mode = "auto-last-commit"

====
